---- MODULE Spec2Model ----
(***************************************************************************)
(* Model of run_approach/dawid_skene.py: the Dawid-Skene EM estimator with *)
(* the blind-spot overrides selected by label_type[1]["AM_noise"].         *)
(*                                                                         *)
(* Probabilities are exact non-negative rationals <<n, d>> in lowest terms *)
(* (d > 0).  The value <<0, 0>> marks a rational whose numerator or        *)
(* denominator would exceed MaxNum; a step whose results do not fit is not *)
(* taken, so the exploration of that run stops there.                      *)
(***************************************************************************)
EXTENDS Integers, Sequences, FiniteSets, TLC

\* ---------------------------------------------------------------- bounds
MaxPatients == 2
MaxObservers == 2
MaxResponses == 3
MaxResponsesMulti == 1
MaxIterBound == 2
MaxNum == 1000000000

\* ------------------------------------------------------ exact arithmetic
RECURSIVE GCD(_, _)
GCD(a, b) == IF b = 0 THEN a ELSE GCD(b, a % b)

OVF == <<0, 0>>
Zero == <<0, 1>>
One == <<1, 1>>

IsOvf(x) == x[2] = 0

FitsProd(a, b) == a = 0 \/ b = 0 \/ a <= MaxNum \div b

\* n/d in lowest terms (n >= 0, d > 0)
Rat(n, d) == LET g == GCD(n, d) IN <<n \div g, d \div g>>

RMul(x, y) ==
    IF IsOvf(x) \/ IsOvf(y) THEN OVF
    ELSE LET g1 == GCD(x[1], y[2])
             g2 == GCD(y[1], x[2])
             a == x[1] \div g1
             b == y[1] \div g2
             c == x[2] \div g2
             d == y[2] \div g1
         IN IF FitsProd(a, b) /\ FitsProd(c, d) THEN <<a * b, c * d>> ELSE OVF

RAdd(x, y) ==
    IF IsOvf(x) \/ IsOvf(y) THEN OVF
    ELSE LET g == GCD(x[2], y[2])
             p == y[2] \div g
             q == x[2] \div g
         IN IF FitsProd(x[1], p) /\ FitsProd(y[1], q) /\ FitsProd(q, y[2])
                  /\ x[1] * p + y[1] * q <= MaxNum
            THEN Rat(x[1] * p + y[1] * q, q * y[2])
            ELSE OVF

\* |x - y|
RAbsDiff(x, y) ==
    IF IsOvf(x) \/ IsOvf(y) THEN OVF
    ELSE LET g == GCD(x[2], y[2])
             p == y[2] \div g
             q == x[2] \div g
         IN IF FitsProd(x[1], p) /\ FitsProd(y[1], q) /\ FitsProd(q, y[2])
            THEN LET a == x[1] * p
                     b == y[1] * q
                 IN Rat(IF a >= b THEN a - b ELSE b - a, q * y[2])
            ELSE OVF

\* x / y for y > 0
RDiv(x, y) == IF IsOvf(y) THEN OVF ELSE RMul(x, <<y[2], y[1]>>)

\* np.power(x, e) for a count e; np.power(0, 0) = 1
RECURSIVE RPow(_, _)
RPow(x, e) == IF e = 0 THEN One ELSE RMul(x, RPow(x, e - 1))

\* a/b < c/d for b, d > 0, by continued-fraction expansion (no products)
RECURSIVE FracLess(_, _, _, _)
FracLess(a, b, c, d) ==
    LET qa == a \div b
        qc == c \div d
        ra == a % b
        rc == c % d
    IN IF qa # qc THEN qa < qc
       ELSE IF rc = 0 THEN FALSE
       ELSE IF ra = 0 THEN TRUE
       ELSE FracLess(d, rc, b, ra)

RLess(x, y) == FracLess(x[1], x[2], y[1], y[2])

RPos(x) == x[1] > 0

\* sum / product of f[i] over i in lo..hi
RECURSIVE RSum(_, _, _)
RSum(f, lo, hi) == IF lo > hi THEN Zero ELSE RAdd(f[lo], RSum(f, lo + 1, hi))

RECURSIVE RProd(_, _, _)
RProd(f, lo, hi) == IF lo > hi THEN One ELSE RMul(f[lo], RProd(f, lo + 1, hi))

RECURSIVE NSum(_, _, _)
NSum(f, lo, hi) == IF lo > hi THEN 0 ELSE f[lo] + NSum(f, lo + 1, hi)

\* ------------------------------------------------------------- the input
\* classes = [0,1] (read_input_data); arrays over classes are indexed 0..1,
\* arrays over patients and observers are indexed from 1.
classes == {0, 1}
Truths == {"t", "f"}
Response == classes \X Truths

DefaultTol == <<1, 100000>>
Tols == {DefaultTol, <<1, 10>>}

ListsUpTo(b) == UNION {[1..n -> Response] : n \in 0..b}

\* sequences of n response lists holding at most b responses altogether
RECURSIVE CellSeqs(_, _)
CellSeqs(n, b) ==
    IF n = 0 THEN {<<>>}
    ELSE UNION {{<<r>> \o rest : rest \in CellSeqs(n - 1, b - Len(r))} : r \in ListsUpTo(b)}

\* {patient: {observer: [(class_label, truth_label), ...]}}
ResponseMaps(nP, nO, b) ==
    {[p \in 1..nP |-> [k \in 1..nO |-> cs[(p - 1) * nO + k]]] :
        cs \in CellSeqs(nP * nO, b)}

\* at most MaxResponses responses in all from a single observer, at most
\* MaxResponsesMulti in all from several observers
Inputs ==
    UNION {UNION {ResponseMaps(nP, nO, IF nO = 1 THEN MaxResponses ELSE MaxResponsesMulti) :
                     nO \in 1..MaxObservers} : nP \in 1..MaxPatients}

\* responses, AM_noise, tol, max_iter: the arguments of run() (line 104);
\* responses is not read after line 106 and is forgotten once initialize()
\* has been called;
\* counts, gold_data: the results of responses_to_counts (line 106);
\* patient_classes, reviewed_blindspots, class_marginals, error_rates,
\* old_class_marginals, old_error_rates, iteration, converged: the locals of
\* run() (lines 112-146); pc: the position in run(); output: the rows
\* written by write_to_file (line 162).
\* post_hist records the posterior returned by initialize() and by each
\* e_step(), param_hist the parameters returned by each m_step(), in order.
VARIABLES responses, AM_noise, tol, max_iter,
          counts, gold_data, patient_classes, reviewed_blindspots,
          class_marginals, error_rates, old_class_marginals, old_error_rates,
          iteration, converged, pc, post_hist, param_hist, output

vars == <<responses, AM_noise, tol, max_iter,
          counts, gold_data, patient_classes, reviewed_blindspots,
          class_marginals, error_rates, old_class_marginals, old_error_rates,
          iteration, converged, pc, post_hist, param_hist, output>>

\* a name not yet bound / the value None
None == <<>>
Some(v) == <<v>>

nPatients == Len(counts)
nObservers == IF Len(counts) = 0 THEN 0 ELSE Len(counts[1])
Patients == 1..nPatients
Observers == 1..nObservers

\* --------------------------------------------------- responses_to_counts
CountOf(list, j) == Cardinality({n \in 1..Len(list) : list[n][1] = j})

\* variant: the flag is overwritten by every response instead of only set
RECURSIVE GoldAfterLast(_, _, _)
GoldAfterLast(list, n, g) ==
    IF n > Len(list) THEN g
    ELSE GoldAfterLast(list, n + 1, IF list[n][1] = 1 /\ list[n][2] = "t" THEN 1 ELSE 0)

\* the loop of lines 225-230 over one response list, gold flag g carried along
RECURSIVE GoldAfter(_, _, _)
GoldAfter(list, n, g) ==
    IF n > Len(list) THEN g
    ELSE GoldAfter(list, n + 1, IF list[n][1] = 1 /\ list[n][2] = "t" THEN 1 ELSE g)

RECURSIVE GoldOverObservers(_, _, _)
GoldOverObservers(byObserver, k, g) ==
    IF k > Len(byObserver) THEN g
    ELSE GoldOverObservers(byObserver, k + 1, GoldAfter(byObserver[k], 1, g))

responses_to_counts(resp) ==
    [counts |-> [i \in 1..Len(resp) |-> [k \in 1..Len(resp[i]) |->
                    [j \in classes |-> CountOf(resp[i][k], j)]]],
     gold_data |-> [i \in 1..Len(resp) |-> GoldOverObservers(resp[i], 1, 0)]]

\* ------------------------------------------------------------ overrides
\* "counts[p,:,1] > 0" is an array with one entry per observer; used as a
\* condition it raises ValueError unless it has exactly one entry.  The
\* array is only evaluated when AM_noise == 0 (short-circuit "and").
TruthValueAmbiguous(am, cnt) == am = 0 /\ Len(cnt[1]) > 1

BlindSpot(am, cnt, gold, p) ==
    \/ am = 0 /\ cnt[p][1][1] > 0
    \/ am = 2 /\ gold[p] > 0

\* variant: the two assignments of the override with their indices swapped
Certain0 == [j \in {0, 1} |-> IF j = 0 THEN <<1, 1>> ELSE <<0, 1>>]

Certain1 == [j \in classes |-> IF j = 1 THEN One ELSE Zero]
ZeroRow == [j \in classes |-> Zero]

RowSum(row) == RAdd(row[0], row[1])

\* "if sum > 0: row = row / float(sum)"; otherwise the row is left as it is
Normalize(row) ==
    LET s == RowSum(row)
    IN IF IsOvf(s) THEN [j \in classes |-> OVF]
       ELSE IF RPos(s) THEN [j \in classes |-> RDiv(row[j], s)] ELSE row

\* ----------------------------------------------------------- initialize
response_sums(cnt, p) == [l \in classes |-> NSum([k \in 1..Len(cnt[p]) |-> cnt[p][k][l]], 1, Len(cnt[p]))]

initialize(cnt, gold, am) ==
    [patient_classes |->
        [p \in 1..Len(cnt) |->
            IF BlindSpot(am, cnt, gold, p) THEN Certain1
            ELSE LET rs == response_sums(cnt, p)
                     p_sum == rs[0] + rs[1]
                 IN IF p_sum > 0 THEN [l \in classes |-> Rat(rs[l], p_sum)]
                    ELSE ZeroRow],
     reviewed_blindspots |-> {p \in 1..Len(cnt) : BlindSpot(am, cnt, gold, p)}]

\* --------------------------------------------------------------- m_step
m_step(cnt, post, am) ==
    LET nP == Len(cnt)
        nO == Len(cnt[1])
        dot(k, j, l) == RSum([i \in 1..nP |-> RMul(post[i][j], <<cnt[i][k][l], 1>>)], 1, nP)
    IN [class_marginals |->
            [j \in classes |-> RDiv(RSum([i \in 1..nP |-> post[i][j]], 1, nP), <<nP, 1>>)],
        error_rates |->
            [k \in 1..nO |-> [j \in classes |->
                IF am = 0 /\ j = 0 THEN [l \in classes |-> IF l = 0 THEN One ELSE Zero]
                ELSE Normalize([l \in classes |-> dot(k, j, l)])]]]

\* --------------------------------------------------------------- e_step
\* class_marginals[j] * np.prod(np.power(error_rates[:,j,:], counts[i,:,:]))
Estimate(cnt, cm, er, i, j) ==
    RMul(cm[j],
         RProd([k \in 1..Len(cnt[i]) |->
                    RMul(RPow(er[k][j][0], cnt[i][k][0]), RPow(er[k][j][1], cnt[i][k][1]))],
               1, Len(cnt[i])))

\* variant: the rows are left unnormalised
e_step_unnormalized(cnt, gold, cm, er, am) ==
    [i \in 1..Len(cnt) |->
        IF BlindSpot(am, cnt, gold, i) THEN Certain1
        ELSE [j \in classes |-> Estimate(cnt, cm, er, i, j)]]

e_step(cnt, gold, cm, er, am) ==
    [i \in 1..Len(cnt) |->
        Normalize(IF BlindSpot(am, cnt, gold, i) THEN Certain1
                  ELSE [j \in classes |-> Estimate(cnt, cm, er, i, j)])]

\* ------------------------------------------------------ calc_likelihood
patient_likelihood(cnt, cm, er, i) ==
    RAdd(Estimate(cnt, cm, er, i, 0), Estimate(cnt, cm, er, i, 1))

\* np.log(0) = -inf makes temp infinite: sys.exit()
NonFinite(cnt, cm, er) ==
    \E i \in 1..Len(cnt) : ~RPos(patient_likelihood(cnt, cm, er, i))

\* ---------------------------------------------------- convergence deltas
class_marginals_diff(cm, old) ==
    RAdd(RAbsDiff(cm[0], old[0]), RAbsDiff(cm[1], old[1]))

RowDiff(r, old) == RAdd(RAbsDiff(r[0], old[0]), RAbsDiff(r[1], old[1]))

error_rates_diff(er, old) ==
    RSum([k \in 1..Len(er) |-> RAdd(RowDiff(er[k][0], old[k][0]), RowDiff(er[k][1], old[k][1]))],
         1, Len(er))

\* -------------------------------------------------------- write_to_file
\* np.argmax: first index of the maximum
best_label(row) == IF RLess(row[0], row[1]) THEN 1 ELSE 0

write_to_file(post) == [i \in 1..Len(post) |-> <<best_label(post[i]), post[i][best_label(post[i])]>>]

\* ------------------------------------------------ representable results
FitsRow(row) == \A j \in classes : ~IsOvf(row[j])
FitsPost(post) == \A i \in 1..Len(post) : FitsRow(post[i])
FitsRates(er) == \A k \in 1..Len(er) : \A j \in classes : FitsRow(er[k][j])

FitsLikelihood(cnt, cm, er) ==
    \A i \in 1..Len(cnt) : ~IsOvf(patient_likelihood(cnt, cm, er, i))

\* ------------------------------------------------------------------ run
Init ==
    /\ responses \in Inputs
    /\ AM_noise \in {0, 1, 2}
    /\ tol \in Tols
    /\ max_iter \in 0..MaxIterBound
    /\ counts = None
    /\ gold_data = None
    /\ patient_classes = None
    /\ reviewed_blindspots = {}
    /\ class_marginals = None
    /\ error_rates = None
    /\ old_class_marginals = None
    /\ old_error_rates = None
    /\ iteration = 0
    /\ converged = FALSE
    /\ pc = "start"
    /\ post_hist = <<>>
    /\ param_hist = <<>>
    /\ output = None

\* lines 104-115: convert the responses, reset the loop variables
Start ==
    /\ pc = "start"
    /\ \E r \in {responses_to_counts(responses)} :
           /\ counts' = r.counts
           /\ gold_data' = r.gold_data
    /\ iteration' = 0
    /\ converged' = FALSE
    /\ old_class_marginals' = None
    /\ old_error_rates' = None
    /\ pc' = "initialize"
    /\ UNCHANGED <<responses, AM_noise, tol, max_iter, patient_classes, reviewed_blindspots,
                   class_marginals, error_rates, post_hist, param_hist, output>>

\* line 116
Initialize ==
    /\ pc = "initialize"
    /\ IF TruthValueAmbiguous(AM_noise, counts)
       THEN /\ pc' = "error"
            /\ UNCHANGED <<patient_classes, reviewed_blindspots, post_hist>>
       ELSE \E r \in {initialize(counts, gold_data, AM_noise)} :
                /\ patient_classes' = r.patient_classes
                /\ reviewed_blindspots' = r.reviewed_blindspots
                /\ post_hist' = <<r.patient_classes>>
                /\ pc' = "m_step"
    /\ responses' = None
    /\ UNCHANGED <<AM_noise, tol, max_iter, counts, gold_data,
                   class_marginals, error_rates, old_class_marginals, old_error_rates,
                   iteration, converged, param_hist, output>>

\* variant: every M-step consumes the posterior of initialize()
MStepStale ==
    /\ pc = "m_step"
    /\ ~converged
    /\ \E r \in {m_step(counts, post_hist[1], AM_noise)} :
          /\ FitsRow(r.class_marginals)
          /\ FitsRates(r.error_rates)
          /\ class_marginals' = r.class_marginals
          /\ error_rates' = r.error_rates
    /\ iteration' = iteration + 1
    /\ pc' = "e_step"
    /\ UNCHANGED <<responses, AM_noise, tol, max_iter, counts, gold_data, patient_classes,
                   reviewed_blindspots, old_class_marginals, old_error_rates,
                   converged, post_hist, param_hist, output>>

\* lines 120-124: the loop is entered, the iteration counted, the M-step run
MStep ==
    /\ pc = "m_step"
    /\ ~converged
    /\ \E r \in {m_step(counts, patient_classes, AM_noise)} :
          /\ FitsRow(r.class_marginals)
          /\ FitsRates(r.error_rates)
          /\ class_marginals' = r.class_marginals
          /\ error_rates' = r.error_rates
    /\ iteration' = iteration + 1
    /\ pc' = "e_step"
    /\ UNCHANGED <<responses, AM_noise, tol, max_iter, counts, gold_data, patient_classes,
                   reviewed_blindspots, old_class_marginals, old_error_rates,
                   converged, post_hist, param_hist, output>>

\* line 129
EStep ==
    /\ pc = "e_step"
    /\ IF TruthValueAmbiguous(AM_noise, counts)
       THEN /\ pc' = "error"
            /\ UNCHANGED <<patient_classes, post_hist, param_hist>>
       ELSE \E post \in {e_step(counts, gold_data, class_marginals, error_rates, AM_noise)} :
               /\ FitsPost(post)
               /\ patient_classes' = post
               /\ post_hist' = Append(post_hist, post)
               /\ param_hist' = Append(param_hist, <<class_marginals, error_rates>>)
               /\ pc' = "calc_likelihood"
    /\ UNCHANGED <<responses, AM_noise, tol, max_iter, counts, gold_data, reviewed_blindspots,
                   class_marginals, error_rates, old_class_marginals, old_error_rates,
                   iteration, converged, output>>

\* line 132
CalcLikelihood ==
    /\ pc = "calc_likelihood"
    /\ FitsLikelihood(counts, class_marginals, error_rates)
    /\ pc' = IF NonFinite(counts, class_marginals, error_rates) THEN "aborted" ELSE "check"
    /\ UNCHANGED <<responses, AM_noise, tol, max_iter, counts, gold_data, patient_classes,
                   reviewed_blindspots, class_marginals, error_rates, old_class_marginals,
                   old_error_rates, iteration, converged, post_hist, param_hist, output>>

\* variant: one delta below tol is enough to stop
CheckConvergenceEither ==
    /\ pc = "check"
    /\ IF old_class_marginals # None
       THEN \E d1 \in {class_marginals_diff(class_marginals, old_class_marginals[1])} :
            \E d2 \in {error_rates_diff(error_rates, old_error_rates[1])} :
               /\ ~IsOvf(d1)
               /\ ~IsOvf(d2)
               /\ converged' = ((RLess(d1, tol) \/ RLess(d2, tol)) \/ iteration > max_iter)
       ELSE converged' = converged
    /\ old_class_marginals' = Some(class_marginals)
    /\ old_error_rates' = Some(error_rates)
    /\ pc' = IF converged' THEN "emit" ELSE "m_step"
    /\ UNCHANGED <<responses, AM_noise, tol, max_iter, counts, gold_data, patient_classes,
                   reviewed_blindspots, class_marginals, error_rates,
                   iteration, post_hist, param_hist, output>>

\* variant: the max_iter test is also made in the first iteration
CheckConvergenceFirst ==
    /\ pc = "check"
    /\ IF old_class_marginals # None
       THEN \E d1 \in {class_marginals_diff(class_marginals, old_class_marginals[1])} :
            \E d2 \in {error_rates_diff(error_rates, old_error_rates[1])} :
               /\ ~IsOvf(d1)
               /\ ~IsOvf(d2)
               /\ converged' = ((RLess(d1, tol) /\ RLess(d2, tol)) \/ iteration > max_iter)
       ELSE converged' = (iteration > max_iter)
    /\ old_class_marginals' = Some(class_marginals)
    /\ old_error_rates' = Some(error_rates)
    /\ pc' = IF converged' THEN "emit" ELSE "m_step"
    /\ UNCHANGED <<responses, AM_noise, tol, max_iter, counts, gold_data, patient_classes,
                   reviewed_blindspots, class_marginals, error_rates,
                   iteration, post_hist, param_hist, output>>

\* lines 134-146
CheckConvergence ==
    /\ pc = "check"
    /\ IF old_class_marginals # None
       THEN \E d1 \in {class_marginals_diff(class_marginals, old_class_marginals[1])} :
            \E d2 \in {error_rates_diff(error_rates, old_error_rates[1])} :
               /\ ~IsOvf(d1)
               /\ ~IsOvf(d2)
               /\ converged' = ((RLess(d1, tol) /\ RLess(d2, tol)) \/ iteration > max_iter)
       ELSE converged' = converged
    /\ old_class_marginals' = Some(class_marginals)
    /\ old_error_rates' = Some(error_rates)
    /\ pc' = IF converged' THEN "emit" ELSE "m_step"
    /\ UNCHANGED <<responses, AM_noise, tol, max_iter, counts, gold_data, patient_classes,
                   reviewed_blindspots, class_marginals, error_rates,
                   iteration, post_hist, param_hist, output>>

\* lines 148-163
Emit ==
    /\ pc = "emit"
    /\ output' = Some(write_to_file(patient_classes))
    /\ pc' = "done"
    /\ UNCHANGED <<responses, AM_noise, tol, max_iter, counts, gold_data, patient_classes,
                   reviewed_blindspots, class_marginals, error_rates, old_class_marginals,
                   old_error_rates, iteration, converged, post_hist, param_hist>>

Next ==
    \/ Start
    \/ Initialize
    \/ MStep
    \/ EStep
    \/ CalcLikelihood
    \/ CheckConvergence
    \/ Emit

Spec == Init /\ [][Next]_vars

\* ------------------------------------------------------- stages of a run
\* the convergence test of iteration "iteration" has been passed through
AfterCheck == (pc = "m_step" /\ iteration >= 1) \/ pc \in {"emit", "done"}

LoopLeft == pc \in {"emit", "done"}

\* initialize() / e_step() has just returned
JustInitialized == pc = "m_step" /\ iteration = 0
JustEStepped == pc = "calc_likelihood"

HasClass1(i) == \E k \in Observers : counts[i][k][1] > 0

Observed(i) == \E k \in Observers : counts[i][k][0] + counts[i][k][1] > 0

Fractional(row) == RPos(row[0]) /\ RPos(row[1])

\* deltas of iteration n against iteration n - 1, as recorded
DeltaCM(n) == class_marginals_diff(param_hist[n][1], param_hist[n - 1][1])
DeltaER(n) == error_rates_diff(param_hist[n][2], param_hist[n - 1][2])

\* ---------------------------------------------------------------- claims

\* C1: under AM_noise == 0, for any number of observers, once initialize()
\* has been called it has returned a posterior, and every item with a
\* positive class-1 count from some observer has the row [0, 1] in the
\* output of initialize() and of every e_step().
C1_BlindSpotAnyObservers ==
    \A i \in Patients :
        (AM_noise = 0 /\ pc \notin {"start", "initialize"} /\ HasClass1(i))
            => /\ Len(post_hist) >= 1
               /\ \A n \in 1..Len(post_hist) : post_hist[n][i] = Certain1

\* C2: at the end of an iteration whose count exceeds max_iter the loop is
\* left: no further iteration starts once iteration > max_iter.
C2_LeavesWhenCountExceedsMaxIter ==
    (pc = "m_step" /\ iteration >= 1) => iteration <= max_iter

\* C3: at the end of iteration n with 2 <= n <= max_iter the loop is left
\* exactly when both deltas against iteration n - 1 are below tol, and
\* old_* hold the parameters of the iteration just checked.
C3_ConvergedIffBothDeltas ==
    AfterCheck =>
        /\ old_class_marginals = Some(param_hist[iteration][1])
        /\ old_error_rates = Some(param_hist[iteration][2])
        /\ (iteration >= 2 /\ iteration <= max_iter) =>
               (LoopLeft <=> (RLess(DeltaCM(iteration), tol) /\ RLess(DeltaER(iteration), tol)))

C3_Witness ==
    /\ pc = "m_step"
    /\ iteration = 2
    /\ iteration <= max_iter
    /\ RLess(DeltaCM(2), tol)
    /\ ~RLess(DeltaER(2), tol)

\* C4: the m_step of iteration n consumes the posterior of initialize()
\* (n = 1) or of the e_step of iteration n - 1, the e_step of iteration n
\* consumes the parameters of the m_step of iteration n, and the returned
\* posterior is e_step of the returned parameters.  post_hist and
\* param_hist only grow, so each entry is stated where it has just been
\* recorded.
C4_MStepBeforeEStep ==
    /\ JustInitialized =>
           /\ post_hist = <<patient_classes>>
           /\ patient_classes = initialize(counts, gold_data, AM_noise).patient_classes
    /\ JustEStepped =>
           /\ Len(param_hist) = iteration
           /\ Len(post_hist) = iteration + 1
           /\ m_step(counts, post_hist[iteration], AM_noise) =
                  [class_marginals |-> param_hist[iteration][1],
                   error_rates |-> param_hist[iteration][2]]
           /\ post_hist[iteration + 1] =
                  e_step(counts, gold_data, param_hist[iteration][1],
                         param_hist[iteration][2], AM_noise)
    /\ pc = "done" =>
           /\ <<class_marginals, error_rates>> = param_hist[iteration]
           /\ patient_classes = post_hist[iteration + 1]
           /\ patient_classes =
                  e_step(counts, gold_data, class_marginals, error_rates, AM_noise)

C4_Witness ==
    /\ pc = "done"
    /\ iteration = 3
    /\ post_hist[2] # post_hist[1]
    /\ post_hist[3] # post_hist[2]

\* C5: the class marginals computed by m_step sum to 1 in every iteration.
C5_MarginalsSumToOne ==
    iteration >= 1 => RowSum(class_marginals) = One

\* C6: every posterior row produced by initialize() or e_step() sums to 1
\* or is all-zero; blind-spot rows are [0, 1]; rows whose scores are all
\* zero stay all-zero.
C6_RowsSumToOneOrZero ==
    \A n \in 1..Len(post_hist) : \A i \in Patients :
        /\ RowSum(post_hist[n][i]) = One \/ post_hist[n][i] = ZeroRow
        /\ BlindSpot(AM_noise, counts, gold_data, i) => post_hist[n][i] = Certain1
        /\ (/\ n >= 2
            /\ ~BlindSpot(AM_noise, counts, gold_data, i)
            /\ \A j \in classes :
                   ~RPos(Estimate(counts, param_hist[n - 1][1], param_hist[n - 1][2], i, j)))
               => post_hist[n][i] = ZeroRow

C6_Witness ==
    /\ Len(post_hist) >= 2
    /\ \E i \in Patients : post_hist[1][i] = ZeroRow /\ Fractional(post_hist[2][i])

\* C7: a zero item likelihood aborts the run in that iteration, with no
\* result written, and that abort is the only way a run ends short of DONE.
C7_AbortIsTheOnlyFailure ==
    /\ AfterCheck \/ pc = "check" => ~NonFinite(counts, class_marginals, error_rates)
    /\ pc = "aborted" =>
           /\ NonFinite(counts, class_marginals, error_rates)
           /\ output = None
           /\ ~converged
    /\ pc # "error"

\* C8: under AM_noise == 2 the gold entry of an item is set exactly when
\* one of its observations is (1, 't'); a gold item has the row [0, 1]
\* after initialize() and every e_step(); an item without gold evidence
\* gets the proportional / Bayesian row even if it has class-1 counts.
C8_GoldEvidenceOverride ==
    AM_noise = 2 =>
        /\ pc = "initialize" =>
               \A i \in Patients :
                   gold_data[i] = (IF \E k \in Observers : \E n \in 1..Len(responses[i][k]) :
                                          responses[i][k][n] = <<1, "t">>
                                   THEN 1 ELSE 0)
        /\ \A n \in 1..Len(post_hist) : \A i \in Patients :
               gold_data[i] > 0 => post_hist[n][i] = Certain1
        /\ JustInitialized =>
               \A i \in Patients :
                   gold_data[i] = 0 =>
                       LET rs == response_sums(counts, i)
                       IN patient_classes[i] =
                              (IF rs[0] + rs[1] > 0
                               THEN [l \in classes |-> Rat(rs[l], rs[0] + rs[1])]
                               ELSE ZeroRow)
        /\ JustEStepped =>
               \A i \in Patients :
                   gold_data[i] = 0 =>
                       patient_classes[i] =
                           Normalize([j \in classes |->
                               Estimate(counts, class_marginals, error_rates, i, j)])

C8_Witness ==
    /\ AM_noise = 2
    /\ Len(post_hist) >= 2
    /\ \E i \in Patients : gold_data[i] = 1 /\ post_hist[2][i] = Certain1
    /\ \E i \in Patients : gold_data[i] = 0 /\ HasClass1(i) /\ post_hist[2][i] # Certain1

C10_NoAbortWhenAllObserved ==
    (pc # "start" /\ nObservers = 1 /\ \A i \in Patients : Observed(i)) =>
        /\ pc # "aborted"
        /\ \A n \in 1..Len(post_hist) : \A i \in Patients : post_hist[n][i] # ZeroRow
        /\ \A n \in 1..Len(param_hist) : \A i \in Patients : \E j \in classes :
               /\ RPos(post_hist[n][i][j])
               /\ RPos(param_hist[n][1][j])
               /\ \A l \in classes :
                      counts[i][1][l] > 0 => RPos(param_hist[n][2][1][j][l])

C10_Witness ==
    /\ pc = "done"
    /\ nObservers = 1
    /\ AM_noise = 0
    /\ \A i \in Patients : Observed(i)
    /\ \E i \in Patients : counts[i][1][0] > 0 /\ counts[i][1][1] > 0
    /\ \E i \in Patients : counts[i][1][1] = 0

====
